---- MODULE Spec2Model ----
(***************************************************************************)
(* Model of the contract review application: the text extraction chain     *)
(* (parsers_llm.py), the analysis orchestrator and its response parsers    *)
(* (llm_analyzer.py), the whole-document risk review (chain.py) and the    *)
(* driver (Home.py).                                                       *)
(*                                                                         *)
(* A Python str is a sequence of symbols.  A symbol is a TLA+ string that  *)
(* stands for one character (" ", "\n", ":", "{") or for an indivisible run *)
(* of letters ("Risk", "Issue", "NDA").  Every literal the code searches    *)
(* for is spelled with its own symbols, so find, split, strip and replace  *)
(* are computed on sequences exactly as Python computes them on strings.   *)
(***************************************************************************)
EXTENDS Integers, Sequences, FiniteSets, TLC

(***************************************************************************)
(* Bounds of the model.                                                    *)
(***************************************************************************)
MaxLines == 2
MaxEntries == 2
MaxPad == 1
MaxText == 4
MaxRisks == 2

(***************************************************************************)
(* Python str primitives.                                                  *)
(***************************************************************************)
Whitespace == {" ", "\n", "\t", "\r", "\f"}

RECURSIVE lstrip(_)
lstrip(s) ==
  IF s = <<>> THEN s
  ELSE IF Head(s) \in Whitespace THEN lstrip(Tail(s)) ELSE s

RECURSIVE rstrip(_)
rstrip(s) ==
  IF s = <<>> THEN s
  ELSE IF s[Len(s)] \in Whitespace THEN rstrip(SubSeq(s, 1, Len(s) - 1)) ELSE s

strip(s) == rstrip(lstrip(s))

startswith(s, p) == Len(s) >= Len(p) /\ SubSeq(s, 1, Len(p)) = p

\* positions (1-based) at which sub occurs in s
Occurrences(s, sub) ==
  {i \in 1..(Len(s) - Len(sub) + 1) : SubSeq(s, i, i + Len(sub) - 1) = sub}

contains(s, sub) == sub = <<>> \/ Occurrences(s, sub) # {}

Min(S) == CHOOSE x \in S : \A y \in S : x <= y
Max(S) == CHOOSE x \in S : \A y \in S : x >= y

MinOrZero(S) == IF S = {} THEN 0 ELSE Min(S)
MaxOrZero(S) == IF S = {} THEN 0 ELSE Max(S)

\* str.find and str.rfind as 1-based positions, 0 for "not found"
find(s, sub) == MinOrZero(Occurrences(s, sub))
rfind(s, sub) == MaxOrZero(Occurrences(s, sub))

\* str.split(sep): the pieces between the non-overlapping occurrences of sep,
\* scanned left to right; i is the position of the first occurrence
RECURSIVE split_at(_, _, _)
split_at(s, sep, i) ==
  IF i = 0 THEN <<s>>
  ELSE LET rest == SubSeq(s, i + Len(sep), Len(s)) IN
       <<SubSeq(s, 1, i - 1)>> \o split_at(rest, sep, find(rest, sep))

split(s, sep) == split_at(s, sep, find(s, sep))

\* str.split(sep, 1): at most one split
split1_at(s, sep, i) ==
  IF i = 0 THEN <<s>>
  ELSE <<SubSeq(s, 1, i - 1), SubSeq(s, i + Len(sep), Len(s))>>

split1(s, sep) == split1_at(s, sep, find(s, sep))

\* str.replace(old, new): every non-overlapping occurrence, left to right
RECURSIVE replace_at(_, _, _, _)
replace_at(s, old, new, i) ==
  IF i = 0 THEN s
  ELSE LET rest == SubSeq(s, i + Len(old), Len(s)) IN
       SubSeq(s, 1, i - 1) \o new \o replace_at(rest, old, new, find(rest, old))

\* the empty string occurs before every character and at the end
RECURSIVE interleave(_, _)
interleave(s, new) ==
  IF s = <<>> THEN new ELSE new \o <<Head(s)>> \o interleave(Tail(s), new)

replace(s, old, new) ==
  IF old = <<>> THEN interleave(s, new) ELSE replace_at(s, old, new, find(s, old))

LowerOf ==
  [x \in {"No", "NO", "Significant", "Risks", "High", "HIGH", "Medium", "Low",
          "Critical", "Unknown", "None", "Not", "Specified"} |->
     CASE x = "No" -> "no"
       [] x = "NO" -> "no"
       [] x = "Unknown" -> "unknown"
       [] x = "None" -> "none"
       [] x = "Not" -> "not"
       [] x = "Specified" -> "specified"
       [] x = "Significant" -> "significant"
       [] x = "Risks" -> "risks"
       [] x = "High" -> "high"
       [] x = "HIGH" -> "high"
       [] x = "Medium" -> "medium"
       [] x = "Low" -> "low"
       [] x = "Critical" -> "critical"]

\* str.lower, symbol by symbol
RECURSIVE lower(_)
lower(s) ==
  IF s = <<>> THEN <<>>
  ELSE <<IF Head(s) \in DOMAIN LowerOf THEN LowerOf[Head(s)] ELSE Head(s)>> \o lower(Tail(s))

\* sep.join(ss)
RECURSIVE join(_, _)
join(sep, ss) ==
  IF ss = <<>> THEN <<>>
  ELSE IF Len(ss) = 1 THEN ss[1]
  ELSE ss[1] \o sep \o join(sep, Tail(ss))

(***************************************************************************)
(* Insertion-ordered dict: a sequence of [k, v] entries with unique keys.  *)
(***************************************************************************)
Keys(d) == {d[i].k : i \in 1..Len(d)}

Get(d, key) == d[CHOOSE i \in 1..Len(d) : d[i].k = key].v

\* d[key] = val: a new key goes last, an existing key keeps its place
RECURSIVE DictSet(_, _, _)
DictSet(d, key, val) ==
  IF d = <<>> THEN <<[k |-> key, v |-> val]>>
  ELSE IF Head(d).k = key THEN <<[k |-> key, v |-> val]>> \o Tail(d)
  ELSE <<Head(d)>> \o DictSet(Tail(d), key, val)

(***************************************************************************)
(* parsers_llm.clean_text: five substitutions and a strip.                 *)
(***************************************************************************)
LowerLetters ==
  {"a", "b", "c", "d", "e", "f", "g", "h", "i", "j", "k", "l", "m",
   "n", "o", "p", "q", "r", "s", "t", "u", "v", "w", "x", "y", "z"}

UpperLetters ==
  {"A", "B", "C", "D", "E", "F", "G", "H", "I", "J", "K", "L", "M",
   "N", "O", "P", "Q", "R", "S", "T", "U", "V", "W", "X", "Y", "Z"}

\* length of the longest prefix of s made of symbols of S
RECURSIVE RunLen(_, _)
RunLen(s, S) ==
  IF s = <<>> \/ Head(s) \notin S THEN 0 ELSE 1 + RunLen(Tail(s), S)

\* re.sub(r'\s+', ' ', text)
RECURSIVE sub_whitespace(_)
sub_whitespace(s) ==
  IF s = <<>> THEN <<>>
  ELSE IF Head(s) \in Whitespace
       THEN <<" ">> \o sub_whitespace(SubSeq(s, RunLen(s, Whitespace) + 1, Len(s)))
       ELSE <<Head(s)>> \o sub_whitespace(Tail(s))

\* re.sub(r'[\f\r]+', '\n', text)
RECURSIVE sub_pagebreaks(_)
sub_pagebreaks(s) ==
  IF s = <<>> THEN <<>>
  ELSE IF Head(s) \in {"\f", "\r"}
       THEN <<"\n">> \o sub_pagebreaks(SubSeq(s, RunLen(s, {"\f", "\r"}) + 1, Len(s)))
       ELSE <<Head(s)>> \o sub_pagebreaks(Tail(s))

\* re.sub(r'(A)(B)', r'\1 \2', text) for two character classes A and B:
\* a match consumes both characters, the scan resumes after them
RECURSIVE sub_pair(_, _, _)
sub_pair(s, A, B) ==
  IF Len(s) < 2 THEN s
  ELSE IF s[1] \in A /\ s[2] \in B
       THEN <<s[1], " ", s[2]>> \o sub_pair(SubSeq(s, 3, Len(s)), A, B)
       ELSE <<s[1]>> \o sub_pair(Tail(s), A, B)

\* re.sub(r'\n\s*\n\s*\n+', '\n\n', text): a match starts at a newline whose
\* whitespace run holds two more newlines and (greedy) ends at the last
\* newline of that run
RECURSIVE sub_newlines(_)
sub_newlines(s) ==
  IF s = <<>> THEN <<>>
  ELSE LET run == RunLen(s, Whitespace)
           nl == {i \in 2..run : s[i] = "\n"}
       IN IF Head(s) = "\n" /\ Cardinality(nl) >= 2
          THEN <<"\n", "\n">> \o sub_newlines(SubSeq(s, Max(nl) + 1, Len(s)))
          ELSE <<Head(s)>> \o sub_newlines(Tail(s))

\* re.sub(..., count=1): only the first match is replaced
RECURSIVE sub_pair_first(_, _, _)
sub_pair_first(s, A, B) ==
  IF Len(s) < 2 THEN s
  ELSE IF s[1] \in A /\ s[2] \in B
       THEN <<s[1], " ", s[2]>> \o SubSeq(s, 3, Len(s))
       ELSE <<s[1]>> \o sub_pair_first(Tail(s), A, B)

\* clean_text with the lower-upper rule applied to the first match only
clean_text_first_match(text) ==
  IF text = <<>> THEN <<>>
  ELSE strip(sub_newlines(
         sub_pair(
           sub_pair_first(sub_pagebreaks(sub_whitespace(text)), LowerLetters, UpperLetters),
           {"."}, UpperLetters)))

\* clean_text without the first rule, which collapses all whitespace
clean_text_keep_newlines(text) ==
  IF text = <<>> THEN <<>>
  ELSE strip(sub_newlines(
         sub_pair(
           sub_pair(sub_pagebreaks(text), LowerLetters, UpperLetters),
           {"."}, UpperLetters)))

clean_text(text) ==
  IF text = <<>> THEN <<>>
  ELSE strip(sub_newlines(
         sub_pair(
           sub_pair(sub_pagebreaks(sub_whitespace(text)), LowerLetters, UpperLetters),
           {"."}, UpperLetters)))

(***************************************************************************)
(* json.loads on a sequence of symbols.  The JSON lexemes are the          *)
(* punctuation symbols, null and the string literals of StrLitValue;       *)
(* whitespace between lexemes is skipped; any other symbol is a decode     *)
(* error, as is data after the value.                                      *)
(***************************************************************************)
\* analyze_contract_comprehensive assesses a clause whose text is longer
MinClauseLen == 100

RECURSIVE Repeat(_, _)
Repeat(x, n) == IF n = 0 THEN <<>> ELSE <<x>> \o Repeat(x, n - 1)

LongText == Repeat("x", MinClauseLen + 1)
ShortText == Repeat("y", MinClauseLen)

\* the string literals of the responses and the str each decodes to
StrLitValue ==
  [x \in {"\"text\"", "\"summary\"", "\"risk_level\"", "\"issues\"",
          "\"recommendations\"", "\"explanation\"", "\"termination\"",
          "\"payment\"", "\"T\"", "\"S\"", "\"LONG\"", "\"SHORT\"",
          "\"high\"", "\"low\"", "\"critical\""} |->
     CASE x = "\"text\"" -> <<"text">>
       [] x = "\"summary\"" -> <<"summary">>
       [] x = "\"risk_level\"" -> <<"risk_level">>
       [] x = "\"issues\"" -> <<"issues">>
       [] x = "\"recommendations\"" -> <<"recommendations">>
       [] x = "\"explanation\"" -> <<"explanation">>
       [] x = "\"termination\"" -> <<"termination">>
       [] x = "\"payment\"" -> <<"payment">>
       [] x = "\"T\"" -> <<"T">>
       [] x = "\"S\"" -> <<"S">>
       [] x = "\"LONG\"" -> LongText
       [] x = "\"SHORT\"" -> ShortText
       [] x = "\"high\"" -> <<"high">>
       [] x = "\"low\"" -> <<"low">>
       [] x = "\"critical\"" -> <<"critical">>]

JStr(s) == [t |-> "str", s |-> s, items |-> <<>>]
JNull == [t |-> "null", s |-> <<>>, items |-> <<>>]
JObj(items) == [t |-> "obj", s |-> <<>>, items |-> items]
JArr(items) == [t |-> "arr", s |-> <<>>, items |-> items]

ParseOk(val, next) == [ok |-> TRUE, val |-> val, next |-> next]
ParseFail == [ok |-> FALSE, val |-> JNull, next |-> 0]

SkipWs(s, i) == i + RunLen(SubSeq(s, i, Len(s)), Whitespace)

At(s, i) == IF i >= 1 /\ i <= Len(s) THEN s[i] ELSE "<end>"

RECURSIVE ParseValue(_, _)
RECURSIVE ParseMembers(_, _, _)
RECURSIVE ParseElements(_, _, _)

ParseValue(s, i) ==
  LET j == SkipWs(s, i)
      c == At(s, j)
  IN CASE c = "{" ->
            IF At(s, SkipWs(s, j + 1)) = "}"
            THEN ParseOk(JObj(<<>>), SkipWs(s, j + 1) + 1)
            ELSE ParseMembers(s, j + 1, <<>>)
       [] c = "[" ->
            IF At(s, SkipWs(s, j + 1)) = "]"
            THEN ParseOk(JArr(<<>>), SkipWs(s, j + 1) + 1)
            ELSE ParseElements(s, j + 1, <<>>)
       [] c \in DOMAIN StrLitValue -> ParseOk(JStr(StrLitValue[c]), j + 1)
       [] c = "null" -> ParseOk(JNull, j + 1)
       [] OTHER -> ParseFail

ParseMembers(s, i, acc) ==
  LET j == SkipWs(s, i)
      c == SkipWs(s, j + 1)
  IN IF At(s, j) \notin DOMAIN StrLitValue \/ At(s, c) # ":" THEN ParseFail
     ELSE LET v == ParseValue(s, c + 1) IN
          IF ~v.ok THEN ParseFail
          ELSE LET m == SkipWs(s, v.next)
                   acc2 == DictSet(acc, StrLitValue[s[j]], v.val)
               IN CASE At(s, m) = "," -> ParseMembers(s, m + 1, acc2)
                    [] At(s, m) = "}" -> ParseOk(JObj(acc2), m + 1)
                    [] OTHER -> ParseFail

ParseElements(s, i, acc) ==
  LET v == ParseValue(s, i) IN
  IF ~v.ok THEN ParseFail
  ELSE LET m == SkipWs(s, v.next) IN
       CASE At(s, m) = "," -> ParseElements(s, m + 1, Append(acc, v.val))
         [] At(s, m) = "]" -> ParseOk(JArr(Append(acc, v.val)), m + 1)
         [] OTHER -> ParseFail

\* json.loads: ok = FALSE stands for json.JSONDecodeError
json_loads(s) ==
  LET v == ParseValue(s, 1) IN
  IF v.ok /\ SkipWs(s, v.next) > Len(s) THEN [ok |-> TRUE, val |-> v.val]
  ELSE [ok |-> FALSE, val |-> JNull]

(***************************************************************************)
(* Completions: a call returns a value or raises.  A model invocation      *)
(* yields content or raises.                                               *)
(***************************************************************************)
Return(v) == [exc |-> "none", value |-> v]
Raise(e) == [exc |-> e, value |-> <<>>]

Responded(content) == [raised |-> FALSE, content |-> content]
InvokeFailed == [raised |-> TRUE, content |-> <<>>]

ObjGet(obj, key, default) ==
  IF key \in Keys(obj.items) THEN Get(obj.items, key) ELSE default

IsStr(v) == v.t = "str"
IsStrList(v) == v.t = "arr" /\ \A i \in 1..Len(v.items) : v.items[i].t = "str"

(***************************************************************************)
(* llm_analyzer.py                                                         *)
(***************************************************************************)
Commercial == <<"Commercial">>
Unknown == <<"Unknown">>

valid_types ==
  {<<"NDA">>, <<"DPA">>, <<"Employment">>, <<"MSA">>, <<"SLA">>, <<"License">>,
   <<"Purchase">>, <<"Lease">>, <<"Commercial">>}

\* type detection without the validation against valid_types
detect_contract_type_llm_unvalidated(o) ==
  IF o.raised THEN Return(Commercial) ELSE Return(strip(o.content))

detect_contract_type_llm(o) ==
  IF o.raised THEN Return(Commercial)
  ELSE LET contract_type == strip(o.content) IN
       IF contract_type \in valid_types THEN Return(contract_type)
       ELSE Return(Commercial)

unknown_variants ==
  {<<"unknown">>, <<"not", " ", "specified">>, <<"not", " ", "mentioned">>, <<"none">>}

\* governing-law detection without its try/except
detect_governing_law_llm_uncaught(o) ==
  IF o.raised THEN Raise("Exception")
  ELSE LET governing_law == strip(o.content) IN
       IF lower(governing_law) \in unknown_variants THEN Return(Unknown)
       ELSE Return(governing_law)

detect_governing_law_llm(o) ==
  IF o.raised THEN Return(Unknown)
  ELSE LET governing_law == strip(o.content) IN
       IF lower(governing_law) \in unknown_variants THEN Return(Unknown)
       ELSE Return(governing_law)

\* the pydantic model ClauseInfo: both fields are validated as str
ClauseInfo(text, summary) ==
  IF IsStr(text) /\ IsStr(summary)
  THEN Return([text |-> text.s, summary |-> summary.s])
  ELSE Raise("ValidationError")

\* the loop over clauses_data.items()
RECURSIVE build_clauses(_, _, _)
build_clauses(items, i, clauses) ==
  IF i > Len(items) THEN Return(clauses)
  ELSE LET clause_type == items[i].k
           clause_info == items[i].v
       IN IF clause_info.t = "obj" /\ <<"text">> \in Keys(clause_info.items)
          THEN LET c == ClauseInfo(ObjGet(clause_info, <<"text">>, JStr(<<>>)),
                                   ObjGet(clause_info, <<"summary">>, JStr(<<>>)))
               IN IF c.exc # "none" THEN c
                  ELSE build_clauses(items, i + 1, DictSet(clauses, clause_type, c.value))
          ELSE build_clauses(items, i + 1, clauses)

\* the inner try block of extract_key_clauses_llm
clauses_body(content) ==
  LET d == json_loads(content) IN
  IF ~d.ok THEN Raise("JSONDecodeError")
  ELSE IF d.val.t # "obj" THEN Raise("AttributeError")
  ELSE build_clauses(d.val.items, 1, <<>>)

\* clause extraction whose handlers re-raise
extract_key_clauses_llm_reraise(o) ==
  IF o.raised THEN Return(<<>>) ELSE clauses_body(o.content)

extract_key_clauses_llm(o) ==
  IF o.raised THEN Return(<<>>)
  ELSE LET b == clauses_body(o.content) IN
       IF b.exc = "JSONDecodeError" THEN Return(<<>>)
       ELSE IF b.exc # "none" THEN Return(<<>>)
       ELSE b

None == [isNone |-> TRUE]

DefaultAssessment ==
  [isNone |-> FALSE,
   risk_level |-> <<"medium">>,
   issues |-> <<<<"Unable", " ", "to", " ", "parse", " ", "detailed", " ", "risk", " ", "assessment">>>>,
   recommendations |-> <<<<"Review", " ", "this", " ", "clause", " ", "manually">>>>,
   explanation |-> <<"Automated", " ", "risk", " ", "assessment", " ", "failed">>]

RECURSIVE StrSeq(_)
StrSeq(items) == IF items = <<>> THEN <<>> ELSE <<Head(items).s>> \o StrSeq(Tail(items))

StrItems(v) == StrSeq(v.items)

\* the pydantic model ClauseRiskAssessment: str, List[str], List[str], str
ClauseRiskAssessment(risk_level, issues, recommendations, explanation) ==
  IF IsStr(risk_level) /\ IsStrList(issues) /\ IsStrList(recommendations) /\ IsStr(explanation)
  THEN Return([isNone |-> FALSE,
               risk_level |-> risk_level.s,
               issues |-> StrItems(issues),
               recommendations |-> StrItems(recommendations),
               explanation |-> explanation.s])
  ELSE Raise("ValidationError")

\* decoding that retries on the whole response when the span fails
risk_decode_fallback(response_content) ==
  IF contains(response_content, <<"{">>) /\ contains(response_content, <<"}">>)
  THEN LET start == find(response_content, <<"{">>)
           end == rfind(response_content, <<"}">>)
           json_str == SubSeq(response_content, start, end)
       IN IF json_loads(json_str).ok
          THEN [args |-> <<json_str>>, res |-> json_loads(json_str)]
          ELSE [args |-> <<json_str, response_content>>, res |-> json_loads(response_content)]
  ELSE [args |-> <<response_content>>, res |-> json_loads(response_content)]

\* the json.loads calls of assess_clause_risk_llm: their arguments in order
\* and the outcome of the last one
risk_decode(response_content) ==
  IF contains(response_content, <<"{">>) /\ contains(response_content, <<"}">>)
  THEN LET start == find(response_content, <<"{">>)
           end == rfind(response_content, <<"}">>)
           json_str == SubSeq(response_content, start, end)
       IN [args |-> <<json_str>>, res |-> json_loads(json_str)]
  ELSE [args |-> <<response_content>>, res |-> json_loads(response_content)]

\* the inner try block of assess_clause_risk_llm
risk_body(content) ==
  LET d == risk_decode(strip(content)).res IN
  IF ~d.ok THEN Raise("JSONDecodeError")
  ELSE IF d.val.t # "obj" THEN Raise("AttributeError")
  ELSE ClauseRiskAssessment(ObjGet(d.val, <<"risk_level">>, JStr(<<"medium">>)),
                            ObjGet(d.val, <<"issues">>, JArr(<<>>)),
                            ObjGet(d.val, <<"recommendations">>, JArr(<<>>)),
                            ObjGet(d.val, <<"explanation">>, JStr(<<>>)))

\* pydantic's ValidationError is a ValueError
assess_clause_risk_llm(o) ==
  IF o.raised THEN Return(None)
  ELSE LET b == risk_body(o.content) IN
       IF b.exc \in {"JSONDecodeError", "ValidationError"} THEN Return(DefaultAssessment)
       ELSE IF b.exc # "none" THEN Return(None)
       ELSE b

(***************************************************************************)
(* chain.py                                                                *)
(***************************************************************************)
GeneralRisk ==
  [text |-> <<"General", " ", "contract", " ", "review">>,
   issue |-> <<"Contract", " ", "requires", " ", "detailed", " ", "legal", " ", "review">>,
   suggestion |-> <<"Have", " ", "this", " ", "contract", " ", "reviewed", " ", "by",
                    " ", "qualified", " ", "legal", " ", "counsel">>,
   risk_level |-> <<"medium">>]

ErrorRisk ==
  [text |-> <<"Contract", " ", "analysis", " ", "error">>,
   issue |-> <<"Unable", " ", "to", " ", "complete", " ", "automated", " ", "analysis">>,
   suggestion |-> <<"Please", " ", "review", " ", "this", " ", "contract", " ", "manually",
                    " ", "with", " ", "legal", " ", "counsel">>,
   risk_level |-> <<"medium">>]

\* every key is present in the dict that llm_review builds
create_risk_item(risk_data) ==
  [text |-> risk_data.text,
   issue |-> risk_data.issue,
   suggestion |-> risk_data.suggestion,
   risk_level |-> risk_data.risk_level]

\* parts[n].replace(label, '') if parts[n].startswith(label) else parts[n]
unlabel(part, label) == IF startswith(part, label) THEN replace(part, label, <<>>) ELSE part

\* the dict built from a Risk line of at least four parts
parse_risk_line(parts) ==
  [text |-> strip(IF contains(parts[1], <<":", " ">>)
                  THEN split1(parts[1], <<":", " ">>)[2] ELSE <<>>),
   issue |-> strip(unlabel(parts[2], <<"Issue", ":", " ">>)),
   suggestion |-> strip(unlabel(parts[3], <<"Suggestion", ":", " ">>)),
   risk_level |-> lower(strip(unlabel(parts[4], <<"Level", ":", " ">>)))]

\* the loop over the lines; current_risk is <<>> for the empty dict and
\* <<d>> for the dict d
RECURSIVE review_lines(_, _, _, _)
review_lines(lines, i, risks, current_risk) ==
  IF i > Len(lines) THEN [risks |-> risks, current_risk |-> current_risk]
  ELSE LET line == strip(lines[i]) IN
       IF line = <<>> THEN review_lines(lines, i + 1, risks, current_risk)
       ELSE IF startswith(line, <<"Risk">>) /\ contains(line, <<":">>)
       THEN LET flushed == IF current_risk # <<>>
                           THEN Append(risks, create_risk_item(current_risk[1]))
                           ELSE risks
                parts == split(line, <<" ", "-", " ">>)
            IN IF Len(parts) >= 4
               THEN review_lines(lines, i + 1, flushed, <<parse_risk_line(parts)>>)
               ELSE review_lines(lines, i + 1, flushed, <<>>)
       ELSE review_lines(lines, i + 1, risks, current_risk)

no_significant_risks == <<"no", " ", "significant", " ", "risks">>

\* the review without the general risk for an unparsed response
llm_review_no_general(o) ==
  IF o.raised THEN Return(<<ErrorRisk>>)
  ELSE LET response_text == strip(o.content) IN
       IF response_text = <<>> \/ contains(lower(response_text), no_significant_risks)
       THEN Return(<<>>)
       ELSE LET st == review_lines(split(response_text, <<"\n">>), 1, <<>>, <<>>)
            IN IF st.current_risk # <<>>
               THEN Return(Append(st.risks, create_risk_item(st.current_risk[1])))
               ELSE Return(st.risks)

\* the review without the check for an explicit "no risks" statement
llm_review_always_parse(o) ==
  IF o.raised THEN Return(<<ErrorRisk>>)
  ELSE LET response_text == strip(o.content)
           st == review_lines(split(response_text, <<"\n">>), 1, <<>>, <<>>)
           risks == IF st.current_risk # <<>>
                    THEN Append(st.risks, create_risk_item(st.current_risk[1]))
                    ELSE st.risks
       IN IF risks = <<>> /\ response_text # <<>>
          THEN Return(<<GeneralRisk>>)
          ELSE Return(risks)

\* the review without the flush of the last record at the end of the input
llm_review_no_final_flush(o) ==
  IF o.raised THEN Return(<<ErrorRisk>>)
  ELSE LET response_text == strip(o.content) IN
       IF response_text = <<>> \/ contains(lower(response_text), no_significant_risks)
       THEN Return(<<>>)
       ELSE LET st == review_lines(split(response_text, <<"\n">>), 1, <<>>, <<>>)
            IN IF st.risks = <<>> /\ response_text # <<>>
               THEN Return(<<GeneralRisk>>)
               ELSE Return(st.risks)

llm_review(o) ==
  IF o.raised THEN Return(<<ErrorRisk>>)
  ELSE LET response_text == strip(o.content) IN
       IF response_text = <<>> \/ contains(lower(response_text), no_significant_risks)
       THEN Return(<<>>)
       ELSE LET st == review_lines(split(response_text, <<"\n">>), 1, <<>>, <<>>)
                risks == IF st.current_risk # <<>>
                         THEN Append(st.risks, create_risk_item(st.current_risk[1]))
                         ELSE st.risks
            IN IF risks = <<>> /\ response_text # <<>>
               THEN Return(<<GeneralRisk>>)
               ELSE Return(risks)

(***************************************************************************)
(* Home.highlight_risks_in_text.  The markup is kept character by          *)
(* character, so that a risk text can occur inside it.                     *)
(***************************************************************************)
\* '<mark style="background-color: '
MarkStyleOpen ==
  <<"<", "m", "a", "r", "k", " ", "s", "t", "y", "l", "e", "=", "\"", "b",
    "a", "c", "k", "g", "r", "o", "u", "n", "d", "-", "c", "o", "l", "o",
    "r", ":", " ">>

\* '; padding: 2px 4px; border-radius: 3px;">'
MarkStyleClose ==
  <<";", " ", "p", "a", "d", "d", "i", "n", "g", ":", " ", "2", "p", "x",
    " ", "4", "p", "x", ";", " ", "b", "o", "r", "d", "e", "r", "-", "r",
    "a", "d", "i", "u", "s", ":", " ", "3", "p", "x", ";", "\"", ">">>

MarkEnd == <<"<", "/", "m", "a", "r", "k", ">">>

\* {"high": "#ffcdd2", "medium": "#ffe0b2", "low": "#f3e5f5"}.get(risk_level, "#f3e5f5")
color(risk_level) ==
  CASE risk_level = <<"high">> -> <<"#", "f", "f", "c", "d", "d", "2">>
    [] risk_level = <<"medium">> -> <<"#", "f", "f", "e", "0", "b", "2">>
    [] OTHER -> <<"#", "f", "3", "e", "5", "f", "5">>

\* f'<mark style="background-color: {color}; ...">{risk.text}</mark>'
mark(risk) ==
  MarkStyleOpen \o color(risk.risk_level) \o MarkStyleClose \o risk.text \o MarkEnd

\* key=lambda x: text.find(x.text) if x.text in text else 0 (offsets from 0)
sort_key(text, x) == IF contains(text, x.text) THEN find(text, x.text) - 1 ELSE 0

RECURSIVE with_keys(_, _)
with_keys(text, risks) ==
  IF risks = <<>> THEN <<>>
  ELSE <<[risk |-> Head(risks), key |-> sort_key(text, Head(risks))]>>
         \o with_keys(text, Tail(risks))

\* e goes behind the entries whose key is at least its own: equal keys keep
\* the order of the list
RECURSIVE insert_reverse(_, _)
insert_reverse(done, e) ==
  IF done = <<>> THEN <<e>>
  ELSE IF Head(done).key >= e.key THEN <<Head(done)>> \o insert_reverse(Tail(done), e)
  ELSE <<e>> \o done

\* e goes behind the entries whose key is at most its own
RECURSIVE insert_forward(_, _)
insert_forward(done, e) ==
  IF done = <<>> THEN <<e>>
  ELSE IF Head(done).key <= e.key THEN <<Head(done)>> \o insert_forward(Tail(done), e)
  ELSE <<e>> \o done

\* sorted(...) without reverse=True
RECURSIVE sorted_forward(_, _)
sorted_forward(entries, done) ==
  IF entries = <<>> THEN done
  ELSE sorted_forward(Tail(entries), insert_forward(done, Head(entries)))

\* sorted(risks, key=..., reverse=True): stable, largest key first
RECURSIVE sorted_reverse(_, _)
sorted_reverse(entries, done) ==
  IF entries = <<>> THEN done
  ELSE sorted_reverse(Tail(entries), insert_reverse(done, Head(entries)))

\* one iteration of the loop over sorted_risks; h holds highlighted_text and
\* the risks whose replacement was applied, in the order of application
highlight_one(h, risk) ==
  IF contains(h.highlighted_text, risk.text)
  THEN [highlighted_text |-> replace(h.highlighted_text, risk.text, mark(risk)),
        applied |-> Append(h.applied, risk)]
  ELSE h

RECURSIVE highlight_loop(_, _)
highlight_loop(sorted_risks, h) ==
  IF sorted_risks = <<>> THEN h
  ELSE highlight_loop(Tail(sorted_risks), highlight_one(h, Head(sorted_risks).risk))

highlight_risks_in_text(text, risks) ==
  highlight_loop(sorted_reverse(with_keys(text, risks), <<>>),
                 [highlighted_text |-> text, applied |-> <<>>])

(***************************************************************************)
(* Home.process_contract after the review: the risk counts and the         *)
(* download document.                                                      *)
(***************************************************************************)
\* a local variable that no statement has assigned yet
Unbound == [bound |-> FALSE]

\* risk_counts = {"high": 0, "medium": 0, "low": 0}
ZeroCounts == [bound |-> TRUE, high |-> 0, medium |-> 0, low |-> 0]

\* for risk in risks: risk_counts[risk.risk_level] += 1, and the icon lookup;
\* a level that is no key raises KeyError with the counts made so far
RECURSIVE count_risks(_, _)
count_risks(risks, counts) ==
  IF risks = <<>> THEN [exc |-> "none", value |-> counts]
  ELSE IF Head(risks).risk_level = <<"high">>
       THEN count_risks(Tail(risks), [counts EXCEPT !.high = @ + 1])
  ELSE IF Head(risks).risk_level = <<"medium">>
       THEN count_risks(Tail(risks), [counts EXCEPT !.medium = @ + 1])
  ELSE IF Head(risks).risk_level = <<"low">>
       THEN count_risks(Tail(risks), [counts EXCEPT !.low = @ + 1])
  ELSE [exc |-> "KeyError", value |-> counts]

\* if not risks: st.info(...) else: the counting loop
risk_analysis(risks) ==
  IF risks = <<>> THEN [exc |-> "none", value |-> Unbound]
  ELSE count_risks(risks, ZeroCounts)

NoDownload == [built |-> FALSE]

\* the key sequence of a dict
RECURSIVE key_list(_)
key_list(d) == IF d = <<>> THEN <<>> ELSE <<Head(d).k>> \o key_list(Tail(d))

\* download_data = {...}; json.dumps(download_data): reading risk_counts
\* before any assignment raises UnboundLocalError
build_download_data(ctype, country, clauses, rs, counts) ==
  IF ~counts.bound THEN Raise("UnboundLocalError")
  ELSE Return([built |-> TRUE,
               contract_analysis |-> [contract_type |-> ctype,
                                      governing_law |-> country,
                                      key_clauses |-> key_list(clauses)],
               risks |-> rs,
               summary |-> [total_risks |-> Len(rs),
                            high_risk_count |-> counts.high,
                            medium_risk_count |-> counts.medium,
                            low_risk_count |-> counts.low]])

(***************************************************************************)
(* parsers_llm.convert_text_to_markdown                                    *)
(***************************************************************************)
LowerSeq ==
  <<"a", "b", "c", "d", "e", "f", "g", "h", "i", "j", "k", "l", "m",
    "n", "o", "p", "q", "r", "s", "t", "u", "v", "w", "x", "y", "z">>

UpperSeq ==
  <<"A", "B", "C", "D", "E", "F", "G", "H", "I", "J", "K", "L", "M",
    "N", "O", "P", "Q", "R", "S", "T", "U", "V", "W", "X", "Y", "Z">>

Digits == {"0", "1", "2", "3", "4", "5", "6", "7", "8", "9"}

LetterIndex(c, letters) == CHOOSE i \in 1..Len(letters) : letters[i] = c

to_upper(c) == IF c \in LowerLetters THEN UpperSeq[LetterIndex(c, LowerSeq)] ELSE c
to_lower(c) == IF c \in UpperLetters THEN LowerSeq[LetterIndex(c, UpperSeq)] ELSE c

\* str.isupper: some cased character and no lower-case one
isupper(s) ==
  /\ \E i \in 1..Len(s) : s[i] \in UpperLetters
  /\ \A i \in 1..Len(s) : s[i] \notin LowerLetters

endswith(s, p) == Len(s) >= Len(p) /\ SubSeq(s, Len(s) - Len(p) + 1, Len(s)) = p

\* str.title: a letter after a letter is lower-cased, any other letter is
\* upper-cased
RECURSIVE title_from(_, _)
title_from(s, after_letter) ==
  IF s = <<>> THEN <<>>
  ELSE <<IF after_letter THEN to_lower(Head(s)) ELSE to_upper(Head(s))>>
         \o title_from(Tail(s), Head(s) \in LowerLetters \cup UpperLetters)

str_title(s) == title_from(s, FALSE)

\* re.match(r'^\d+\.?\s+[A-Z]', paragraph); d digits lead the paragraph
numbered_from(p, d) ==
  LET dot == IF d < Len(p) /\ p[d + 1] = "." THEN d + 1 ELSE d
      ws == RunLen(SubSeq(p, dot + 1, Len(p)), Whitespace)
  IN /\ d >= 1
     /\ ws >= 1
     /\ dot + ws < Len(p)
     /\ p[dot + ws + 1] \in UpperLetters

looks_numbered(p) == numbered_from(p, RunLen(p, Digits))

\* the body of the loop over the paragraphs, for a stripped paragraph
markdown_paragraph(paragraph) ==
  IF paragraph = <<>> THEN <<>>
  ELSE IF Len(paragraph) < 100 /\ isupper(paragraph) /\ ~endswith(paragraph, <<".">>)
       THEN <<"#", "#", " ">> \o str_title(paragraph) \o <<"\n", "\n">>
  ELSE IF looks_numbered(paragraph)
       THEN <<"#", "#", "#", " ">> \o paragraph \o <<"\n", "\n">>
  ELSE paragraph \o <<"\n", "\n">>

RECURSIVE markdown_paragraphs(_)
markdown_paragraphs(paragraphs) ==
  IF paragraphs = <<>> THEN <<>>
  ELSE markdown_paragraph(strip(Head(paragraphs))) \o markdown_paragraphs(Tail(paragraphs))

convert_text_to_markdown(text, title) ==
  IF strip(text) = <<>> THEN <<>>
  ELSE (IF title # <<>> THEN <<"#", " ">> \o title \o <<"\n", "\n">> ELSE <<>>)
         \o markdown_paragraphs(split(text, <<"\n", "\n">>))

\* f"Contract Analysis: {uploaded_file.name}"
DownloadTitle == <<"Contract", " ", "Analysis", ":", " ", "file">>

(***************************************************************************)
(* parsers_llm.py: the extraction backends and extract_text.  A backend    *)
(* library call yields a text or raises; every backend catches the         *)
(* exception and returns the empty string.                                 *)
(***************************************************************************)
extract_text_from_pdf_pymupdf(o) == IF o.raised THEN <<>> ELSE o.text
extract_text_from_pdf_pdfplumber(o) == IF o.raised THEN <<>> ELSE o.text
extract_text_from_pdf_pypdf2(o) == IF o.raised THEN <<>> ELSE o.text
extract_text_from_docx_python_docx(o) == IF o.raised THEN <<>> ELSE o.text
extract_text_from_docx_docx2txt(o) == IF o.raised THEN <<>> ELSE o.text

pdf_methods == <<"PyMuPDF", "pdfplumber", "PyPDF2">>
docx_methods == <<"python-docx", "docx2txt">>

methods(sfx) == IF sfx = "pdf" THEN pdf_methods ELSE docx_methods

method_func(name, o) ==
  CASE name = "PyMuPDF" -> extract_text_from_pdf_pymupdf(o)
    [] name = "pdfplumber" -> extract_text_from_pdf_pdfplumber(o)
    [] name = "PyPDF2" -> extract_text_from_pdf_pypdf2(o)
    [] name = "python-docx" -> extract_text_from_docx_python_docx(o)
    [] name = "docx2txt" -> extract_text_from_docx_docx2txt(o)

\* the loop without its break
method_succeeded_nobreak(out) == FALSE

\* if text.strip(): ... break
method_succeeded(out) == strip(out) # <<>>

\* main without the check for empty text
main_gate_unchecked(t) == "process"

\* main: if not text.strip(): st.error(...); return
main_gate(t) == IF strip(t) = <<>> THEN "halted" ELSE "process"

(***************************************************************************)
(* Inputs of the pipeline.                                                 *)
(***************************************************************************)
DocA == <<" ", "a", "B", ".", "C", "\n", "\n", "\n", "d", "\f">>

DocB == <<"x", "\r", "\n", "y">>

\* a heading line, a blank line, a paragraph
DocT ==
  <<"T", "E", "R", "M", "I", "N", "A", "T", "I", "O", "N", "\n", "\n",
    "I", "t", " ", "e", "n", "d", "s", ".">>

LibTexts == {<<>>, <<" ", "\n">>, DocA, DocB, DocT}

LibOutcomes ==
  {[raised |-> TRUE, text |-> <<>>]} \cup {[raised |-> FALSE, text |-> t] : t \in LibTexts}

Utf8Outcomes ==
  {[kind |-> "ok", text |-> t] : t \in LibTexts}
    \cup {[kind |-> "UnicodeDecodeError", text |-> <<>>], [kind |-> "Exception", text |-> <<>>]}

\* the sample of main, shortened: an indented heading line, an indented
\* paragraph
SampleText ==
  <<"\n", " ", "N", "D", "A", "\n", " ", "\n", " ", "T", "h", "i", "s", ".", "\n", " ">>

VARIABLES pc, suffix, mi, text, attempts, extracted, called, invocations,
          stage, response, result, decoded,
          contract_type, governing_law, key_clauses, clause_risks, ci, risks, error,
          highlighted_text, applied, risk_counts, download_data, markdown_content

vars == <<pc, suffix, mi, text, attempts, extracted, called, invocations,
          stage, response, result, decoded,
          contract_type, governing_law, key_clauses, clause_risks, ci, risks, error,
          highlighted_text, applied, risk_counts, download_data, markdown_content>>

extractVars == <<suffix, mi, text, attempts, extracted>>
callVars == <<stage, response, result, decoded>>
analysisVars == <<contract_type, governing_law, key_clauses, clause_risks, ci, risks>>
outputVars == <<highlighted_text, applied, risk_counts, download_data, markdown_content>>

Init ==
  /\ pc = "main"
  /\ suffix = ""
  /\ mi = 0
  /\ text = <<>>
  /\ attempts = <<>>
  /\ extracted = <<>>
  /\ called = <<>>
  /\ invocations = <<>>
  /\ stage = "none"
  /\ response = Responded(<<>>)
  /\ result = Return(<<>>)
  /\ decoded = <<>>
  /\ contract_type = <<>>
  /\ governing_law = <<>>
  /\ key_clauses = <<>>
  /\ clause_risks = <<>>
  /\ ci = 0
  /\ risks = <<>>
  /\ error = "none"
  /\ highlighted_text = <<>>
  /\ applied = <<>>
  /\ risk_counts = Unbound
  /\ download_data = NoDownload
  /\ markdown_content = <<>>

(***************************************************************************)
(* Home.main and parsers_llm.extract_text                                  *)
(***************************************************************************)
\* a file is uploaded and main calls extract_text
Upload ==
  /\ pc = "main"
  /\ \E sfx \in {"pdf", "docx", "txt"} : suffix' = sfx
  /\ pc' = "extract"
  /\ mi' = 1
  /\ text' = <<>>
  /\ UNCHANGED <<attempts, extracted, called, invocations, error>>
  /\ UNCHANGED callVars
  /\ UNCHANGED analysisVars
  /\ UNCHANGED outputVars

\* "Load Sample NDA": process_contract on the sample, neither extracted
\* nor cleaned
LoadSample ==
  /\ pc = "main"
  /\ suffix' = "txt"
  /\ text' = SampleText
  /\ pc' = "process"
  /\ UNCHANGED <<mi, attempts, extracted, called, invocations, error>>
  /\ UNCHANGED callVars
  /\ UNCHANGED analysisVars
  /\ UNCHANGED outputVars

\* one iteration of the loop over methods
TryMethod ==
  /\ pc = "extract"
  /\ suffix \in {"pdf", "docx"}
  /\ \E o \in LibOutcomes :
       LET name == methods(suffix)[mi]
           out == method_func(name, o)
       IN /\ text' = out
          /\ attempts' = Append(attempts, [name |-> name, out |-> out])
          /\ IF method_succeeded(out) \/ mi = Len(methods(suffix))
             THEN pc' = "extract_return" /\ mi' = mi
             ELSE pc' = "extract" /\ mi' = mi + 1
  /\ UNCHANGED <<suffix, extracted, called, invocations, error>>
  /\ UNCHANGED callVars
  /\ UNCHANGED analysisVars
  /\ UNCHANGED outputVars

\* the txt branch: utf-8, on UnicodeDecodeError latin-1; any other exception
\* of the first read leaves extract_text and main reports it and returns
DecodeTxt ==
  /\ pc = "extract"
  /\ suffix = "txt"
  /\ \E u \in Utf8Outcomes :
       CASE u.kind = "ok" ->
              /\ text' = u.text
              /\ attempts' = Append(attempts, [name |-> "utf-8", out |-> u.text])
              /\ pc' = "extract_return"
         [] u.kind = "UnicodeDecodeError" ->
              \E l \in LibOutcomes :
                LET out == IF l.raised THEN <<>> ELSE l.text IN
                /\ text' = out
                /\ attempts' = attempts \o <<[name |-> "utf-8", out |-> <<>>],
                                             [name |-> "latin-1", out |-> out]>>
                /\ pc' = "extract_return"
         [] u.kind = "Exception" ->
              /\ text' = text
              /\ attempts' = Append(attempts, [name |-> "utf-8", out |-> <<>>])
              /\ pc' = "halted"
  /\ UNCHANGED <<suffix, mi, extracted, called, invocations, error>>
  /\ UNCHANGED callVars
  /\ UNCHANGED analysisVars
  /\ UNCHANGED outputVars

\* return text.strip()
ExtractReturn ==
  /\ pc = "extract_return"
  /\ extracted' = strip(text)
  /\ pc' = "clean"
  /\ UNCHANGED <<suffix, mi, text, attempts, called, invocations, error>>
  /\ UNCHANGED callVars
  /\ UNCHANGED analysisVars
  /\ UNCHANGED outputVars

\* main: text = clean_text(text), then the check for empty text
MainClean ==
  /\ pc = "clean"
  /\ text' = clean_text(extracted)
  /\ pc' = main_gate(clean_text(extracted))
  /\ UNCHANGED <<suffix, mi, attempts, extracted, called, invocations, error>>
  /\ UNCHANGED callVars
  /\ UNCHANGED analysisVars
  /\ UNCHANGED outputVars

(***************************************************************************)
(* Model responses.                                                        *)
(***************************************************************************)
SeqsUpTo(S, n) == UNION {[1..k -> S] : k \in 0..n}

Pads == SeqsUpTo({" ", "\n"}, MaxPad)

Padded(bodies) == {Responded(a \o b \o c) : a \in Pads, b \in bodies, c \in Pads}

\* type detection
TypeBodies ==
  valid_types \cup {<<"nda">>, <<"NDA", ".">>, <<"NDA", " ", "MSA">>, <<"Other">>, <<>>}

TypeOutcomes == {InvokeFailed} \cup Padded(TypeBodies)

\* governing-law detection
LawBodies ==
  {<<"California">>, <<"United", " ", "Kingdom">>, <<"Unknown">>, <<"unknown">>,
   <<"Not", " ", "Specified">>, <<"not", " ", "mentioned">>, <<"None">>,
   <<"none", ".">>, <<>>}

LawOutcomes == {InvokeFailed} \cup Padded(LawBodies)

\* JSON text of an object with the given members
Member(m) == <<m.key, ":", " ">> \o m.val
RECURSIVE Members(_)
Members(ms) == IF ms = <<>> THEN <<>> ELSE <<Member(Head(ms))>> \o Members(Tail(ms))

RenderObj(members) == <<"{">> \o join(<<",", " ">>, Members(members)) \o <<"}">>

Mem(key, val) == [key |-> key, val |-> val]

\* clause extraction
ClauseValues ==
  {RenderObj(<<Mem("\"text\"", <<"\"T\"">>), Mem("\"summary\"", <<"\"S\"">>)>>),
   RenderObj(<<Mem("\"text\"", <<"\"LONG\"">>)>>),
   RenderObj(<<Mem("\"summary\"", <<"\"S\"">>), Mem("\"text\"", <<"\"SHORT\"">>)>>),
   RenderObj(<<Mem("\"summary\"", <<"\"S\"">>)>>),
   RenderObj(<<Mem("\"text\"", <<"null">>)>>),
   <<"null">>,
   <<"\"T\"">>,
   <<"[", "]">>}

ClauseMembers == {Mem(k, v) : k \in {"\"termination\"", "\"payment\""}, v \in ClauseValues}

ClauseObjects == {RenderObj(ms) : ms \in SeqsUpTo(ClauseMembers, MaxEntries)}

LongClause == RenderObj(<<Mem("\"text\"", <<"\"LONG\"">>), Mem("\"summary\"", <<"\"S\"">>)>>)
ShortClause == RenderObj(<<Mem("\"text\"", <<"\"SHORT\"">>), Mem("\"summary\"", <<"\"S\"">>)>>)

TerminationTS ==
  RenderObj(<<Mem("\"termination\"",
                  RenderObj(<<Mem("\"text\"", <<"\"T\"">>), Mem("\"summary\"", <<"\"S\"">>)>>))>>)

ClauseNonObjects ==
  {<<>>,
   <<"I", " ", "found", " ", "no", " ", "clauses">>,
   <<"Here", ":", " ">> \o TerminationTS,
   SubSeq(TerminationTS, 1, Len(TerminationTS) - 1),
   TerminationTS \o <<" ", "Thanks">>,
   <<"[">> \o TerminationTS \o <<"]">>,
   <<"\"T\"">>,
   <<"null">>}

ClauseOutcomes ==
  {InvokeFailed} \cup {Responded(a \o b) : a \in Pads, b \in ClauseObjects \cup ClauseNonObjects}

\* per-clause risk assessment
RiskLevelMembers ==
  {<<>>} \cup {<<Mem("\"risk_level\"", v)>> :
                 v \in {<<"\"high\"">>, <<"\"low\"">>, <<"\"critical\"">>, <<"null">>}}

IssuesMembers ==
  {<<>>} \cup {<<Mem("\"issues\"", v)>> :
                 v \in {<<"[", "\"T\"", "]">>, <<"null">>, <<"[", "null", "]">>}}

RiskObjects ==
  {RenderObj(a \o b) : a \in RiskLevelMembers, b \in IssuesMembers}
    \cup {RenderObj(<<Mem("\"risk_level\"", <<"\"high\"">>),
                      Mem("\"issues\"", <<"[", "\"T\"", "]">>),
                      Mem("\"recommendations\"", <<"[", "\"S\"", "]">>),
                      Mem("\"explanation\"", <<"\"T\"">>)>>)}

HighObject == RenderObj(<<Mem("\"risk_level\"", <<"\"high\"">>)>>)

RiskNonObjects ==
  {<<>>,
   <<"I", " ", "cannot", " ", "assess", " ", "this">>,
   SubSeq(HighObject, 1, Len(HighObject) - 1),
   <<"}", " ", "{">>,
   HighObject \o <<" ", "and", " ">> \o HighObject,
   <<"[", "]">>,
   <<"[">> \o HighObject \o <<"]">>,
   <<"[">> \o HighObject \o <<",", " ">> \o HighObject \o <<"]">>,
   <<"\"high\"">>,
   <<"null">>}

RiskPrefixes == {<<>>, <<"Here", " ", "is", " ", "the", " ", "result", ":", " ">>}
RiskSuffixes == {<<>>, <<" ", "Thanks">>}

RiskOutcomes ==
  {InvokeFailed}
    \cup Padded({p \o b \o q : p \in RiskPrefixes, b \in RiskObjects \cup RiskNonObjects,
                               q \in RiskSuffixes})

\* whole-document risk review
RiskLine(n, txt, level) ==
  <<"Risk", " ", n, ":", " ", txt, " ", "-", " ", "Issue", ":", " ", "bar", " ", "-", " ",
    "Suggestion", ":", " ", "baz", " ", "-", " ", "Level", ":", " ", level>>

ReviewLines ==
  {RiskLine("1", "foo", "HIGH"),
   RiskLine("2", "qux", "Critical"),
   <<" ">> \o RiskLine("3", "foo", "low") \o <<" ", "-", " ", "extra">>,
   <<"Risk", ":", " ", "a", " ", "-", " ", "b", " ", "-", " ", "c", " ", "-", " ", "d">>,
   <<"Risk", " ", "4", ":", " ", "q", " ", "-", " ", "Issue", ":", " ", "x">>,
   <<"Risk", "s", " ", "abound">>,
   <<"1", ".", " ", "foo", " ", "-", " ", "Issue", ":", " ", "bar", " ", "-", " ",
     "Suggestion", ":", " ", "baz", " ", "-", " ", "Level", ":", " ", "high">>,
   <<"The", " ", "contract", " ", "looks", " ", "fine", ".">>,
   <<"No", " ", "significant", " ", "risks", " ", "found", ".">>,
   <<"NO", " ", "Significant", " ", "Risks", ".">>,
   <<"Risk", " ", "5", ":", " ", "t", " ", "-", " ", "Issue", ":", " ", "a", " ", "Issue", ":", " ",
     "b", " ", "-", " ", "Suggestion", ":", " ", "c", " ", "-", " ", "Level", ":", " ", "Low">>,
   <<" ">>}

ReviewOutcomes ==
  {InvokeFailed} \cup {Responded(join(<<"\n">>, ls)) : ls \in SeqsUpTo(ReviewLines, MaxLines)}

\* the responses of the runs that start at an upload
RunTypeOutcomes == {Responded(<<"NDA", "\n">>)}
RunLawOutcomes == {Responded(<<" ", "California">>)}
RunClauseOutcomes ==
  {Responded(RenderObj(<<Mem("\"termination\"", LongClause), Mem("\"payment\"", ShortClause)>>))}
RunRiskOutcomes == {InvokeFailed, Responded(HighObject)}
RunReviewOutcomes == {Responded(RiskLine("1", "foo", "HIGH"))}

\* the responses of the runs of process_contract on the sample
PipeTypeOutcomes == {InvokeFailed, Responded(<<"NDA", "\n">>), Responded(<<"nda">>)}

PipeLawOutcomes == {InvokeFailed, Responded(<<" ", "California">>), Responded(<<"None">>)}

PipeClauseOutcomes ==
  {InvokeFailed,
   Responded(<<"I", " ", "found", " ", "no", " ", "clauses">>),
   Responded(SubSeq(TerminationTS, 1, Len(TerminationTS) - 1)),
   Responded(<<"Here", ":", " ">> \o TerminationTS),
   Responded(<<"[", "]">>),
   Responded(RenderObj(<<Mem("\"termination\"", LongClause), Mem("\"payment\"", ShortClause)>>)),
   Responded(RenderObj(<<Mem("\"termination\"", LongClause), Mem("\"payment\"", LongClause)>>)),
   Responded(RenderObj(<<Mem("\"termination\"", <<"null">>), Mem("\"payment\"", LongClause)>>))}

PipeRiskOutcomes ==
  {InvokeFailed,
   Responded(<<"I", " ", "cannot", " ", "assess", " ", "this">>),
   Responded(<<"[", "]">>),
   Responded(<<"Here", ":", " ">> \o HighObject \o <<" ", "Thanks">>),
   Responded(RenderObj(<<Mem("\"risk_level\"", <<"\"critical\"">>)>>))}

PipeReviewOutcomes ==
  {InvokeFailed,
   Responded(<<"No", " ", "significant", " ", "risks", " ", "found", ".">>),
   Responded(<<"The", " ", "contract", " ", "looks", " ", "fine", ".">>),
   Responded(RiskLine("1", "foo", "HIGH") \o <<"\n">> \o RiskLine("2", "qux", "low")),
   Responded(RiskLine("2", "qux", "Critical"))}

(***************************************************************************)
(* Home.process_contract, llm_analyzer.analyze_contract_comprehensive and  *)
(* chain.llm_review, one action per model invocation.  An exception that   *)
(* leaves a stage is not caught by any caller: the run crashes.            *)
(***************************************************************************)
Invocation(stg, clause, ctype, law, o) ==
  [stage |-> stg, clause |-> clause, contract_type |-> ctype, governing_law |-> law,
   outcome |-> o]

\* one model invocation by a stage: the stage returns r and the run goes on
\* at next, or the stage raises and the run crashes
Invoked(stg, clause, ctype, law, o, r, next) ==
  /\ stage' = stg
  /\ response' = o
  /\ result' = r
  /\ invocations' = Append(invocations, Invocation(stg, clause, ctype, law, o))
  /\ pc' = IF r.exc = "none" THEN next ELSE "crashed"
  /\ error' = r.exc

\* x = f(...): x takes the returned value unless f raised
Assigned(old, r) == IF r.exc = "none" THEN r.value ELSE old

\* the arguments of the json.loads calls of one risk assessment
json_loads_args(o) == IF o.raised THEN <<>> ELSE risk_decode(strip(o.content)).args

\* process_contract calls analyze_contract_full(text)
ProcessContract ==
  /\ pc = "process"
  /\ called' = Append(called, "analyze_contract_full")
  /\ pc' = "type"
  /\ UNCHANGED <<invocations, error>>
  /\ UNCHANGED extractVars
  /\ UNCHANGED callVars
  /\ UNCHANGED analysisVars
  /\ UNCHANGED outputVars

\* step 1 followed by step 3, without the detection of the governing law
DetectType_then_clauses(outcomes) ==
  /\ pc = "type"
  /\ \E o \in outcomes :
       /\ Invoked("type", <<>>, <<>>, <<>>, o, detect_contract_type_llm(o), "clauses")
       /\ contract_type' = Assigned(contract_type, result')
  /\ UNCHANGED <<called, decoded, governing_law, key_clauses, clause_risks, ci, risks>>
  /\ UNCHANGED extractVars
  /\ UNCHANGED outputVars

\* step 1: contract_type = detect_contract_type_llm(text)
DetectType(outcomes) ==
  /\ pc = "type"
  /\ \E o \in outcomes :
       /\ Invoked("type", <<>>, <<>>, <<>>, o, detect_contract_type_llm(o), "law")
       /\ contract_type' = Assigned(contract_type, result')
  /\ UNCHANGED <<called, decoded, governing_law, key_clauses, clause_risks, ci, risks>>
  /\ UNCHANGED extractVars
  /\ UNCHANGED outputVars

\* step 2: governing_law = detect_governing_law_llm(text)
DetectLaw(outcomes) ==
  /\ pc = "law"
  /\ \E o \in outcomes :
       /\ Invoked("law", <<>>, <<>>, <<>>, o, detect_governing_law_llm(o), "clauses")
       /\ governing_law' = Assigned(governing_law, result')
  /\ UNCHANGED <<called, decoded, contract_type, key_clauses, clause_risks, ci, risks>>
  /\ UNCHANGED extractVars
  /\ UNCHANGED outputVars

\* step 3: key_clauses = extract_key_clauses_llm(text); clause_risks = {}
ExtractClauses(outcomes) ==
  /\ pc = "clauses"
  /\ \E o \in outcomes :
       /\ Invoked("clauses", <<>>, <<>>, <<>>, o, extract_key_clauses_llm(o), "risk")
       /\ key_clauses' = Assigned(key_clauses, result')
  /\ clause_risks' = <<>>
  /\ ci' = 1
  /\ UNCHANGED <<called, decoded, contract_type, governing_law, risks>>
  /\ UNCHANGED extractVars
  /\ UNCHANGED outputVars

\* step 4 with the assessment filed under the contract type
AssessClause_by_type(outcomes) ==
  /\ pc = "risk"
  /\ ci <= Len(key_clauses)
  /\ Len(key_clauses[ci].v.text) > MinClauseLen
  /\ \E o \in outcomes :
       /\ Invoked("risk", key_clauses[ci].k, contract_type, governing_law, o,
                   assess_clause_risk_llm(o), "risk")
       /\ decoded' = json_loads_args(o)
       /\ clause_risks' = IF result'.exc = "none" /\ result'.value # None
                          THEN DictSet(clause_risks, contract_type, result'.value)
                          ELSE clause_risks
       /\ ci' = IF result'.exc = "none" THEN ci + 1 ELSE ci
  /\ UNCHANGED <<called, contract_type, governing_law, key_clauses, risks>>
  /\ UNCHANGED extractVars
  /\ UNCHANGED outputVars

\* step 4 with a clause of exactly the threshold assessed as well
AssessClause_inclusive(outcomes) ==
  /\ pc = "risk"
  /\ ci <= Len(key_clauses)
  /\ Len(key_clauses[ci].v.text) >= MinClauseLen
  /\ \E o \in outcomes :
       /\ Invoked("risk", key_clauses[ci].k, contract_type, governing_law, o,
                   assess_clause_risk_llm(o), "risk")
       /\ decoded' = json_loads_args(o)
       /\ clause_risks' = IF result'.exc = "none" /\ result'.value # None
                          THEN DictSet(clause_risks, key_clauses[ci].k, result'.value)
                          ELSE clause_risks
       /\ ci' = IF result'.exc = "none" THEN ci + 1 ELSE ci
  /\ UNCHANGED <<called, contract_type, governing_law, key_clauses, risks>>
  /\ UNCHANGED extractVars
  /\ UNCHANGED outputVars

\* step 4, a clause longer than the threshold: assess it and keep the
\* assessment unless it is None
AssessClause(outcomes) ==
  /\ pc = "risk"
  /\ ci <= Len(key_clauses)
  /\ Len(key_clauses[ci].v.text) > MinClauseLen
  /\ \E o \in outcomes :
       /\ Invoked("risk", key_clauses[ci].k, contract_type, governing_law, o,
                   assess_clause_risk_llm(o), "risk")
       /\ decoded' = json_loads_args(o)
       /\ clause_risks' = IF result'.exc = "none" /\ result'.value # None
                          THEN DictSet(clause_risks, key_clauses[ci].k, result'.value)
                          ELSE clause_risks
       /\ ci' = IF result'.exc = "none" THEN ci + 1 ELSE ci
  /\ UNCHANGED <<called, contract_type, governing_law, key_clauses, risks>>
  /\ UNCHANGED extractVars
  /\ UNCHANGED outputVars

\* step 4, a clause of at most the threshold: skipped
SkipClause ==
  /\ pc = "risk"
  /\ ci <= Len(key_clauses)
  /\ ~(Len(key_clauses[ci].v.text) > MinClauseLen)
  /\ ci' = ci + 1
  /\ UNCHANGED <<pc, called, invocations, error>>
  /\ UNCHANGED <<contract_type, governing_law, key_clauses, clause_risks, risks>>
  /\ UNCHANGED extractVars
  /\ UNCHANGED callVars
  /\ UNCHANGED outputVars

\* the loop is over: the result dict is returned to process_contract
AnalyzeReturn ==
  /\ pc = "risk"
  /\ ci > Len(key_clauses)
  /\ pc' = "review"
  /\ UNCHANGED <<called, invocations, error>>
  /\ UNCHANGED extractVars
  /\ UNCHANGED callVars
  /\ UNCHANGED analysisVars
  /\ UNCHANGED outputVars

\* risks = llm_review(text, contract_type, country, regulatory_hints)
Review(outcomes) ==
  /\ pc = "review"
  /\ called' = Append(called, "llm_review")
  /\ \E o \in outcomes :
       /\ Invoked("review", <<>>, contract_type, governing_law, o, llm_review(o), "reviewed")
       /\ risks' = Assigned(risks, result')
  /\ UNCHANGED <<decoded, contract_type, governing_law, key_clauses, clause_risks, ci>>
  /\ UNCHANGED extractVars
  /\ UNCHANGED outputVars

Highlighted(h) ==
  /\ highlighted_text' = h.highlighted_text
  /\ applied' = h.applied

\* col1: if risks: highlighted_text = highlight_risks_in_text(text, risks)
Highlight ==
  /\ pc = "reviewed"
  /\ Highlighted(IF risks # <<>> THEN highlight_risks_in_text(text, risks)
                 ELSE [highlighted_text |-> highlighted_text, applied |-> applied])
  /\ pc' = "col2"
  /\ UNCHANGED <<called, invocations, error, risk_counts, download_data, markdown_content>>
  /\ UNCHANGED extractVars
  /\ UNCHANGED callVars
  /\ UNCHANGED analysisVars

\* a statement of process_contract ended with r: the run goes on at next or
\* crashes with the exception
Stepped(r, next) ==
  /\ pc' = IF r.exc = "none" THEN next ELSE "crashed"
  /\ error' = r.exc

Counted(r) ==
  /\ risk_counts' = r.value
  /\ Stepped(r, "download")

Built(r) ==
  /\ download_data' = Assigned(download_data, r)
  /\ Stepped(r, "markdown")

\* col2: the risk counts, made only for a non-empty risk list
RiskAnalysis ==
  /\ pc = "col2"
  /\ Counted(risk_analysis(risks))
  /\ UNCHANGED <<called, invocations, highlighted_text, applied, download_data,
                 markdown_content>>
  /\ UNCHANGED extractVars
  /\ UNCHANGED callVars
  /\ UNCHANGED analysisVars

\* the download document
BuildDownload ==
  /\ pc = "download"
  /\ Built(build_download_data(contract_type, governing_law, key_clauses, risks,
                               risk_counts))
  /\ UNCHANGED <<called, invocations, highlighted_text, applied, risk_counts,
                 markdown_content>>
  /\ UNCHANGED extractVars
  /\ UNCHANGED callVars
  /\ UNCHANGED analysisVars

\* markdown_content = convert_text_to_markdown(text, title)
ConvertMarkdown ==
  /\ pc = "markdown"
  /\ markdown_content' = convert_text_to_markdown(text, DownloadTitle)
  /\ pc' = "done"
  /\ UNCHANGED <<called, invocations, error, highlighted_text, applied, risk_counts,
                 download_data>>
  /\ UNCHANGED extractVars
  /\ UNCHANGED callVars
  /\ UNCHANGED analysisVars

\* a run of main from an upload or from the sample
Next ==
  \/ Upload
  \/ LoadSample
  \/ TryMethod
  \/ DecodeTxt
  \/ ExtractReturn
  \/ MainClean
  \/ ProcessContract
  \/ DetectType(RunTypeOutcomes)
  \/ DetectLaw(RunLawOutcomes)
  \/ ExtractClauses(RunClauseOutcomes)
  \/ AssessClause(RunRiskOutcomes)
  \/ SkipClause
  \/ AnalyzeReturn
  \/ Review(RunReviewOutcomes)
  \/ Highlight
  \/ RiskAnalysis
  \/ BuildDownload
  \/ ConvertMarkdown

Spec == Init /\ [][Next]_vars

\* a run of process_contract on the sample, with every kind of response and
\* failure at every stage
NextSample ==
  \/ LoadSample
  \/ ProcessContract
  \/ DetectType(PipeTypeOutcomes)
  \/ DetectLaw(PipeLawOutcomes)
  \/ ExtractClauses(PipeClauseOutcomes)
  \/ AssessClause(PipeRiskOutcomes)
  \/ SkipClause
  \/ AnalyzeReturn
  \/ Review(PipeReviewOutcomes)
  \/ Highlight
  \/ RiskAnalysis
  \/ BuildDownload
  \/ ConvertMarkdown

SpecSample == Init /\ [][NextSample]_vars

(***************************************************************************)
(* The stage functions called directly, each on every response of its set. *)
(***************************************************************************)
InitCalls ==
  /\ pc = "call"
  /\ suffix = ""
  /\ mi = 0
  /\ text = <<>>
  /\ attempts = <<>>
  /\ extracted = <<>>
  /\ called = <<>>
  /\ invocations = <<>>
  /\ stage = "none"
  /\ response = Responded(<<>>)
  /\ result = Return(<<>>)
  /\ decoded = <<>>
  /\ contract_type = <<>>
  /\ governing_law = <<>>
  /\ key_clauses = <<>>
  /\ clause_risks = <<>>
  /\ ci = 0
  /\ risks = <<>>
  /\ error = "none"
  /\ highlighted_text = <<>>
  /\ applied = <<>>
  /\ risk_counts = Unbound
  /\ download_data = NoDownload
  /\ markdown_content = <<>>

CallDone(stg, o, r) ==
  /\ stage' = stg
  /\ response' = o
  /\ result' = r
  /\ pc' = "returned"
  /\ UNCHANGED <<called, invocations, error>>
  /\ UNCHANGED extractVars
  /\ UNCHANGED analysisVars
  /\ UNCHANGED outputVars

CallDetectType ==
  /\ pc = "call"
  /\ \E o \in TypeOutcomes : CallDone("type", o, detect_contract_type_llm(o))
  /\ decoded' = <<>>

CallDetectLaw ==
  /\ pc = "call"
  /\ \E o \in LawOutcomes : CallDone("law", o, detect_governing_law_llm(o))
  /\ decoded' = <<>>

CallExtractClauses ==
  /\ pc = "call"
  /\ \E o \in ClauseOutcomes : CallDone("clauses", o, extract_key_clauses_llm(o))
  /\ decoded' = <<>>

CallAssessRisk ==
  /\ pc = "call"
  /\ \E o \in RiskOutcomes :
       /\ CallDone("risk", o, assess_clause_risk_llm(o))
       /\ decoded' = json_loads_args(o)

CallReview ==
  /\ pc = "call"
  /\ \E o \in ReviewOutcomes : CallDone("review", o, llm_review(o))
  /\ decoded' = <<>>

\* the inputs of clean_text
CleanAlphabet == {" ", "\n", "\f", "a", "B", "."}

CleanInputs == SeqsUpTo(CleanAlphabet, MaxText) \cup {DocA, DocB, DocT}

CallClean ==
  /\ pc = "call"
  /\ \E x \in CleanInputs :
       /\ text' = x
       /\ result' = Return(clean_text(x))
  /\ stage' = "clean"
  /\ pc' = "returned"
  /\ UNCHANGED <<suffix, mi, attempts, extracted, called, invocations, error, response,
                 decoded>>
  /\ UNCHANGED analysisVars
  /\ UNCHANGED outputVars

\* the inputs of highlight_risks_in_text: a source text and risks whose
\* text is a piece of the source, a text that is not in it ("z" occurs in
\* no markup, "p" occurs in the style of every mark), or empty
HlTexts == {<<"x", "a", "x", "y">>, <<"m", "a", "r", "k">>}

HlRiskTexts(t) ==
  {SubSeq(t, i, i) : i \in 1..Len(t)}
    \cup {SubSeq(t, i, i + 1) : i \in 1..(Len(t) - 1)}
    \cup {<<"z">>, <<"p">>}

HlRisk(x, level) == [text |-> x, issue |-> <<"i">>, suggestion |-> <<"s">>, risk_level |-> level]

HlRisks(t) == {HlRisk(x, level) : x \in HlRiskTexts(t), level \in {<<"high">>, <<"critical">>}}

HlRiskLists(t) == SeqsUpTo(HlRisks(t), MaxRisks) \cup {<<HlRisk(<<>>, <<"low">>)>>}

CallHighlight ==
  /\ pc = "call"
  /\ \E t \in HlTexts : \E rs \in HlRiskLists(t) :
       /\ text' = t
       /\ risks' = rs
       /\ Highlighted(highlight_risks_in_text(t, rs))
  /\ stage' = "highlight"
  /\ pc' = "returned"
  /\ UNCHANGED <<suffix, mi, attempts, extracted, called, invocations, error, response,
                 result, decoded>>
  /\ UNCHANGED <<contract_type, governing_law, key_clauses, clause_risks, ci>>
  /\ UNCHANGED <<risk_counts, download_data, markdown_content>>

\* the inputs of convert_text_to_markdown
MarkdownTexts ==
  {<<" ", "\n">>, DocT, clean_text(DocT), SampleText,
   <<"1", ".", " ", "A", "b", "\n", "\n", "A", "B", ".", "\n", "\n", " ", "\n", "\n", "a", "b">>}

CallMarkdown ==
  /\ pc = "call"
  /\ \E t \in MarkdownTexts :
       /\ text' = t
       /\ markdown_content' = convert_text_to_markdown(t, DownloadTitle)
  /\ stage' = "markdown"
  /\ pc' = "returned"
  /\ UNCHANGED <<suffix, mi, attempts, extracted, called, invocations, error, response,
                 result, decoded>>
  /\ UNCHANGED analysisVars
  /\ UNCHANGED <<highlighted_text, applied, risk_counts, download_data>>

NextCalls ==
  \/ CallClean
  \/ CallHighlight
  \/ CallMarkdown
  \/ CallDetectType
  \/ CallDetectLaw
  \/ CallExtractClauses
  \/ CallAssessRisk
  \/ CallReview

SpecCalls == InitCalls /\ [][NextCalls]_vars

(***************************************************************************)
(* Properties.                                                             *)
(***************************************************************************)
Blank(s) == \A i \in 1..Len(s) : s[i] \in Whitespace

AllBlank(as) == \A i \in 1..Len(as) : Blank(as[i].out)

\* t is s without its leading and trailing whitespace
IsStripOf(t, s) ==
  \E i \in 1..(Len(s) + 1) : \E j \in 0..Len(s) :
    /\ t = SubSeq(s, i, j)
    /\ Blank(SubSeq(s, 1, i - 1))
    /\ Blank(SubSeq(s, j + 1, Len(s)))
    /\ (t = <<>> \/ (t[1] \notin Whitespace /\ t[Len(t)] \notin Whitespace))

PriorityOrder(sfx) ==
  IF sfx = "pdf" THEN <<"PyMuPDF", "pdfplumber", "PyPDF2">> ELSE <<"python-docx", "docx2txt">>

Levels == {<<"high">>, <<"medium">>, <<"low">>}

NineTypes ==
  {<<"NDA">>, <<"DPA">>, <<"Employment">>, <<"MSA">>, <<"SLA">>, <<"License">>,
   <<"Purchase">>, <<"Lease">>, <<"Commercial">>}

\* C1: for a pdf and for a docx the backends are attempted in the fixed
\* priority order, no backend is attempted after one whose output is not
\* blank, the chain ends only at such a backend or after the last one, and
\* extract_text returns the last attempted backend's output, stripped.
C1_BackendChain ==
  (suffix \in {"pdf", "docx"} /\ attempts # <<>>) =>
    /\ Len(attempts) <= Len(PriorityOrder(suffix))
    /\ \A i \in 1..Len(attempts) : attempts[i].name = PriorityOrder(suffix)[i]
    /\ \A i \in 1..(Len(attempts) - 1) : Blank(attempts[i].out)
    /\ pc # "extract" =>
         (~Blank(attempts[Len(attempts)].out) \/ Len(attempts) = Len(PriorityOrder(suffix)))
    /\ pc \notin {"extract", "extract_return"} =>
         IsStripOf(extracted, attempts[Len(attempts)].out)

\* C1 witness: the first pdf backend gave nothing, the second gave text, the
\* third was not attempted and the text was returned stripped.
C1_Witness ==
  /\ pc = "clean"
  /\ suffix = "pdf"
  /\ Len(attempts) = 2
  /\ Blank(attempts[1].out)
  /\ attempts[2].out = DocA
  /\ extracted = <<"a", "B", ".", "C", "\n", "\n", "\n", "d">>

\* C2: when every backend attempted for an uploaded document gave empty or
\* whitespace-only text or failed, extract_text returns the empty string and
\* neither analyze_contract_full nor llm_review is called and no model
\* invocation happens.
C2_NoAnalysisWithoutText ==
  (attempts # <<>> /\ AllBlank(attempts)) =>
    /\ extracted = <<>>
    /\ called = <<>>
    /\ invocations = <<>>
    /\ pc \in {"extract", "extract_return", "clean", "halted"}

\* C2 witness: all three pdf backends gave nothing and main stopped.
C2_Witness ==
  /\ pc = "halted"
  /\ suffix = "pdf"
  /\ Len(attempts) = 3
  /\ AllBlank(attempts)
  /\ called = <<>>

\* C3: the risk_level of every assessment returned by assess_clause_risk_llm
\* and of every item returned by llm_review is high, medium or low.
C3_RiskLevelEnumerated ==
  /\ (stage = "risk" /\ result.value # None) => result.value.risk_level \in Levels
  /\ stage = "review" =>
       \A i \in 1..Len(result.value) : result.value[i].risk_level \in Levels

\* C4: detect_contract_type_llm returns one of the nine types: the response
\* without its surrounding whitespace when that is one of them, Commercial
\* for every other response and for a failed invocation.
C4_ContractTypeClosed ==
  stage = "type" =>
    /\ result.exc = "none"
    /\ result.value \in NineTypes
    /\ \A v \in NineTypes :
         (~response.raised /\ IsStripOf(v, response.content)) => result.value = v
    /\ (response.raised \/ ~(\E v \in NineTypes : IsStripOf(v, response.content)))
         => result.value = <<"Commercial">>

\* C4 witness: a response outside the nine types gave Commercial.
C4_Witness ==
  /\ stage = "type"
  /\ response = Responded(<<" ", "NDA", ".", "\n">>)
  /\ result.value = <<"Commercial">>

\* the positions of process_contract after llm_review returned
AfterReview == {"reviewed", "col2", "download", "markdown", "done"}

\* the stage whose invocation failed returned its default and the run went on
\* to the next step; assessed(v) says what a failed risk assessment returns
FailedStageHandled(assessed(_)) ==
  /\ result.exc = "none"
  /\ response.raised =>
       /\ result.exc = "none"
       /\ stage = "type" =>
            result.value = <<"Commercial">> /\ contract_type = <<"Commercial">> /\ pc = "law"
       /\ stage = "law" =>
            result.value = <<"Unknown">> /\ governing_law = <<"Unknown">> /\ pc = "clauses"
       /\ stage = "clauses" =>
            result.value = <<>> /\ key_clauses = <<>> /\ pc \in {"risk", "review"}
       /\ stage = "risk" => assessed(result.value) /\ pc \in {"risk", "review"}
       /\ stage = "review" =>
            /\ Len(result.value) = 1
            /\ result.value[1].risk_level = <<"medium">>
            /\ risks = result.value
            /\ pc \in AfterReview

IsMediumRecord(v) == v # None /\ v.risk_level = <<"medium">>

\* the clause of the last invocation has no entry in clause_risks
IsNoAssessment(v) ==
  v = None /\ invocations[Len(invocations)].clause \notin Keys(clause_risks)

\* C5 as stated: a failed invocation never reaches the caller and the stage
\* returns its default, a generic medium-severity record for the per-clause
\* risk assessment and for the risk review.
C5_FailedStageDefaults == FailedStageHandled(IsMediumRecord)

\* C5 amended: as C5, but a failed per-clause risk assessment returns None
\* and the clause gets no entry in clause_risks.
C5_FailedStageDefaultsAmended == FailedStageHandled(IsNoAssessment)

\* C5 witness: of two long clauses the assessment of the second failed, the
\* first kept its entry and the orchestrator returned.
C5_Witness ==
  /\ pc = "review"
  /\ stage = "risk"
  /\ response.raised
  /\ result.value = None
  /\ Len(key_clauses) = 2
  /\ Keys(clause_risks) = {key_clauses[1].k}

HasBraces(rc) == (\E i \in 1..Len(rc) : rc[i] = "{") /\ (\E i \in 1..Len(rc) : rc[i] = "}")

\* the substring from the first "{" to the last "}"
BraceSpan(rc) ==
  SubSeq(rc, Min({i \in 1..Len(rc) : rc[i] = "{"}), Max({i \in 1..Len(rc) : rc[i] = "}"}))

DecodesToObject(str) == json_loads(str).ok /\ json_loads(str).val.t = "obj"

\* neither the response nor its brace span is the JSON text of an object
CannotDecode(content) ==
  /\ ~DecodesToObject(strip(content))
  /\ HasBraces(strip(content)) => ~DecodesToObject(BraceSpan(strip(content)))

\* C6: a risk-assessment response that cannot be decoded into an object gives
\* the default assessment: medium, one generic issue, one recommendation.
C6_UndecodableGivesDefault ==
  (stage = "risk" /\ ~response.raised /\ CannotDecode(response.content)) =>
    /\ result.value # None
    /\ result.value.risk_level = <<"medium">>
    /\ result.value.issues =
         <<<<"Unable", " ", "to", " ", "parse", " ", "detailed", " ", "risk", " ", "assessment">>>>
    /\ Len(result.value.recommendations) = 1

\* C7 as stated: with JSON embedded in prose the span from the first "{" to
\* the last "}" is decoded, and when that fails the whole response is decoded
\* next.
C7_SpanThenWhole ==
  (stage = "risk" /\ ~response.raised /\ HasBraces(strip(response.content))) =>
    LET rc == strip(response.content) IN
    IF json_loads(BraceSpan(rc)).ok
    THEN decoded = <<BraceSpan(rc)>>
    ELSE decoded = <<BraceSpan(rc), rc>>

\* C7 amended: a response with both braces has only its span from the first
\* "{" to the last "}" decoded, and when that fails the default assessment is
\* returned without decoding the whole response; the whole response is
\* decoded only when a brace is missing.
C7_SpanOnly ==
  (stage = "risk" /\ ~response.raised) =>
    LET rc == strip(response.content) IN
    IF HasBraces(rc)
    THEN /\ decoded = <<BraceSpan(rc)>>
         /\ ~json_loads(BraceSpan(rc)).ok => result.value = DefaultAssessment
    ELSE decoded = <<rc>>

\* C7 witness: an object between prose was decoded alone and gave its level.
C7_Witness ==
  /\ stage = "risk"
  /\ response = Responded(<<"Here", " ", "is", " ", "the", " ", "result", ":", " ">>
                            \o HighObject \o <<" ", "Thanks">>)
  /\ decoded = <<HighObject>>
  /\ result.value.risk_level = <<"high">>

\* the entries of a decoded object that are objects with a text field
TextEntries(obj) ==
  {i \in 1..Len(obj.items) :
     obj.items[i].v.t = "obj" /\ <<"text">> \in Keys(obj.items[i].v.items)}

\* C8: for a response that decodes to an object the result has exactly the
\* keys whose value is an object with a text field, each with that entry's
\* text and summary.
C8_ExactlyTheTextEntries ==
  (stage = "clauses" /\ ~response.raised /\ DecodesToObject(response.content)) =>
    LET obj == json_loads(response.content).val IN
    /\ Keys(result.value) = {obj.items[i].k : i \in TextEntries(obj)}
    /\ \A i \in TextEntries(obj) :
         /\ Get(result.value, obj.items[i].k).text = Get(obj.items[i].v.items, <<"text">>).s
         /\ <<"summary">> \in Keys(obj.items[i].v.items) =>
              Get(result.value, obj.items[i].k).summary
                = Get(obj.items[i].v.items, <<"summary">>).s

ClauseInvocations == {i \in 1..Len(invocations) : invocations[i].stage = "clauses"}

\* C9: when the clause-extraction response is not decodable JSON, the stage
\* returns an empty mapping without raising and the analysis has no clauses
\* and no clause risks, up to and after the return of the orchestrator.
C9_UndecodableClausesEmpty ==
  \A i \in ClauseInvocations :
    (~invocations[i].outcome.raised /\ ~json_loads(invocations[i].outcome.content).ok) =>
      /\ key_clauses = <<>>
      /\ clause_risks = <<>>
      /\ stage = "clauses" =>
           result = Return(<<>>) /\ error = "none" /\ pc \in {"risk", "review"}

\* C9 witness: truncated JSON, and the orchestrator returned with nothing.
C9_Witness ==
  /\ pc = "review"
  /\ stage = "clauses"
  /\ response = Responded(SubSeq(TerminationTS, 1, Len(TerminationTS) - 1))
  /\ key_clauses = <<>>
  /\ clause_risks = <<>>

\* a line from which the grammar recovers a record
RecordLine(l) ==
  /\ Len(strip(l)) >= 1
  /\ strip(l)[1] = "Risk"
  /\ \E i \in 1..Len(l) : l[i] = ":"
  /\ Cardinality({i \in 1..(Len(strip(l)) - 2) :
                    SubSeq(strip(l), i, i + 2) = <<" ", "-", " ">>}) >= 3

\* C10: a non-empty response without "no significant risks" from which no
\* record is recovered gives exactly the General contract review item at
\* medium.
C10_GeneralRiskWhenNothingParsed ==
  (/\ stage = "review"
   /\ ~response.raised
   /\ ~Blank(response.content)
   /\ ~contains(lower(response.content), <<"no", " ", "significant", " ", "risks">>)
   /\ \A i \in 1..Len(split(response.content, <<"\n">>)) :
        ~RecordLine(split(response.content, <<"\n">>)[i]))
  => /\ Len(result.value) = 1
     /\ result.value[1].text = <<"General", " ", "contract", " ", "review">>
     /\ result.value[1].risk_level = <<"medium">>

\* C10 witness: a Risk line with too few parts gave the general item.
C10_Witness ==
  /\ stage = "review"
  /\ response = Responded(<<"Risk", " ", "4", ":", " ", "q", " ", "-", " ", "Issue", ":", " ", "x">>)
  /\ result.value = <<GeneralRisk>>

\* the response holds "no significant risks" in some letter case
SaysNoSignificantRisks(s) ==
  \E i \in 1..(Len(s) - 4) :
    /\ s[i] \in {"no", "No", "NO"}
    /\ s[i + 1] = " "
    /\ s[i + 2] \in {"significant", "Significant"}
    /\ s[i + 3] = " "
    /\ s[i + 4] \in {"risks", "Risks"}

\* C11: a response that is blank or holds "no significant risks" in any
\* letter case gives the empty sequence, whatever Risk lines it also holds.
C11_NoRisksStatementGivesEmpty ==
  (/\ pc = "returned"
   /\ stage = "review"
   /\ ~response.raised
   /\ (Blank(response.content) \/ SaysNoSignificantRisks(response.content)))
  => result = Return(<<>>)

\* C11 witness: a well-formed Risk line followed by the statement in mixed
\* case gave no risk at all.
C11_Witness ==
  /\ pc = "returned"
  /\ stage = "review"
  /\ response = Responded(RiskLine("1", "foo", "HIGH") \o <<"\n">>
                             \o <<"NO", " ", "Significant", " ", "Risks", ".">>)
  /\ result = Return(<<>>)

\* the risk text occurs in the source text
FoundInSource(x) == Occurrences(text, x.text) # {}

\* C12: the replacements are applied in descending order of the first
\* occurrence of the risk text in the source text: of two applied risks that
\* are both found in the source, the one applied first has no smaller offset.
C12_DescendingOffsetOrder ==
  (pc = "returned" /\ stage = "highlight") =>
    \A i \in 1..Len(applied) : \A j \in 1..Len(applied) :
      (i < j /\ FoundInSource(applied[i]) /\ FoundInSource(applied[j])) =>
        MinOrZero(Occurrences(text, applied[i].text))
          >= MinOrZero(Occurrences(text, applied[j].text))

\* C12 witness: the risk found at offset 1 came before the risk found at
\* offset 3 in the list, and the replacement at offset 3 was applied first.
C12_Witness ==
  /\ pc = "returned"
  /\ stage = "highlight"
  /\ text = <<"x", "a", "x", "y">>
  /\ risks = <<HlRisk(<<"a">>, <<"high">>), HlRisk(<<"y">>, <<"high">>)>>
  /\ applied = <<HlRisk(<<"y">>, <<"high">>), HlRisk(<<"a">>, <<"high">>)>>

\* C13: for every risk sequence that llm_review returns, the empty one
\* included, process_contract builds the download document, with one entry
\* per risk, total_risks the number of risks and the three counts adding up
\* to it, and nothing fails after the review.
C13_DownloadAlwaysBuilt ==
  /\ (stage = "review" /\ result.exc = "none") => pc # "crashed"
  /\ pc \in {"markdown", "done"} =>
       /\ download_data.built
       /\ Len(download_data.risks) = Len(risks)
       /\ download_data.summary.total_risks = Len(risks)
       /\ download_data.summary.high_risk_count + download_data.summary.medium_risk_count
            + download_data.summary.low_risk_count = Len(risks)

\* C14: clean_text is idempotent, and the empty string is cleaned to the
\* empty string.
C14_CleanIdempotent ==
  (pc = "returned" /\ stage = "clean") =>
    /\ clean_text(result.value) = result.value
    /\ text = <<>> => result.value = <<>>

\* C14 witness: a text that cleaning changes by two rules at once.
C14_Witness ==
  /\ pc = "returned"
  /\ stage = "clean"
  /\ text = <<"a", "B", "\n", "\n">>
  /\ result.value = <<"a", " ", "B">>

\* C15: the keys of clause_risks are keys of key_clauses, at every point of
\* the analysis and in the result that analyze_contract_comprehensive returns.
C15_RiskKeysAreClauseKeys == Keys(clause_risks) \subseteq Keys(key_clauses)

\* C15 witness: two clauses were extracted, one of them has an assessment and
\* the orchestrator returned.
C15_Witness ==
  /\ pc = "review"
  /\ Len(key_clauses) = 2
  /\ Len(clause_risks) = 1
  /\ Keys(clause_risks) \subseteq Keys(key_clauses)

\* "## Termination" and its blank line
TerminationHeading ==
  <<"#", "#", " ", "T", "e", "r", "m", "i", "n", "a", "t", "i", "o", "n", "\n", "\n">>

\* the paragraph of DocT as a Markdown paragraph of its own
SeparateParagraph ==
  <<"\n", "\n", "I", "t", " ", "e", "n", "d", "s", ".", "\n", "\n">>

\* C16: an uploaded text with the single ALL-CAPS line TERMINATION followed
\* by a paragraph, cleaned and then converted as main and process_contract
\* do, gives Markdown with the heading "## Termination" and the paragraph as
\* a separate regular paragraph.
C16_HeadingPromotedEndToEnd ==
  (pc = "done" /\ extracted = DocT) =>
    /\ contains(markdown_content, TerminationHeading)
    /\ contains(markdown_content, SeparateParagraph)

RiskInvocations(k) ==
  {j \in 1..Len(invocations) : invocations[j].stage = "risk" /\ invocations[j].clause = k}

StageCount(stg) == Cardinality({j \in 1..Len(invocations) : invocations[j].stage = stg})

\* C17: the invocations happen in the order type, law, clauses and then the
\* risk assessments; once the orchestrator has returned each of the first
\* three has happened exactly once, whatever the earlier stages returned;
\* every risk assessment comes after the clause extraction and receives the
\* contract type and the governing law that the first two stages returned.
C17_StagesInOrder ==
  /\ \A j \in 1..Len(invocations) :
       /\ j = 1 => invocations[j].stage = "type"
       /\ j = 2 => invocations[j].stage = "law"
       /\ j = 3 => invocations[j].stage = "clauses"
       /\ j > 3 => invocations[j].stage \in {"risk", "review"}
       /\ invocations[j].stage = "risk" =>
            /\ j > 3
            /\ \A i \in 1..j : invocations[i].stage # "review"
            /\ invocations[j].contract_type = contract_type
            /\ invocations[j].governing_law = governing_law
  /\ pc \in {"review"} \cup AfterReview =>
       StageCount("type") = 1 /\ StageCount("law") = 1 /\ StageCount("clauses") = 1

\* C17 witness: the first two invocations failed, two clauses were then
\* extracted and assessed, and the orchestrator returned.
C17_Witness ==
  /\ pc = "review"
  /\ Len(invocations) = 5
  /\ invocations[1].outcome = InvokeFailed
  /\ invocations[2].outcome = InvokeFailed
  /\ invocations[5].stage = "risk"
  /\ invocations[5].contract_type = <<"Commercial">>
  /\ invocations[5].governing_law = <<"Unknown">>

\* C18: a clause whose text is longer than 100 characters is assessed exactly
\* once, when the loop reaches it, and never twice; a clause of 100
\* characters or fewer is never assessed and never has an entry in
\* clause_risks.
C18_OnlyLongClausesAssessed ==
  \A i \in 1..Len(key_clauses) :
    LET n == Cardinality(RiskInvocations(key_clauses[i].k)) IN
    /\ Len(key_clauses[i].v.text) <= 100 =>
         n = 0 /\ key_clauses[i].k \notin Keys(clause_risks)
    /\ Len(key_clauses[i].v.text) > 100 =>
         /\ n <= 1
         /\ i < ci => n = 1

\* C18 witness: a clause of 101 characters was assessed, a clause of 100
\* characters was not, and the orchestrator returned.
C18_Witness ==
  /\ pc = "review"
  /\ Len(key_clauses) = 2
  /\ Len(key_clauses[1].v.text) = 101
  /\ Len(key_clauses[2].v.text) = 100
  /\ Cardinality(RiskInvocations(key_clauses[1].k)) = 1
  /\ RiskInvocations(key_clauses[2].k) = {}
  /\ Keys(clause_risks) = {key_clauses[1].k}

\* a stripped line that starts a record: it starts with Risk, holds a colon
\* and has at least four parts
IsRecordLine(line) ==
  /\ line # <<>>
  /\ Head(line) = "Risk"
  /\ \E i \in 1..Len(line) : line[i] = ":"
  /\ Len(split(line, <<" ", "-", " ">>)) >= 4

\* what follows the first ": " of a part, nothing when there is none
AfterColon(part) ==
  IF Occurrences(part, <<":", " ">>) = {} THEN <<>>
  ELSE SubSeq(part, Min(Occurrences(part, <<":", " ">>)) + 2, Len(part))

\* a part that starts with its label loses the label wherever it occurs
WithoutLabel(part, label) ==
  IF Len(part) >= Len(label) /\ SubSeq(part, 1, Len(label)) = label
  THEN replace(part, label, <<>>)
  ELSE part

RecordOfParts(parts) ==
  [text |-> strip(AfterColon(parts[1])),
   issue |-> strip(WithoutLabel(parts[2], <<"Issue", ":", " ">>)),
   suggestion |-> strip(WithoutLabel(parts[3], <<"Suggestion", ":", " ">>)),
   risk_level |-> lower(strip(WithoutLabel(parts[4], <<"Level", ":", " ">>)))]

\* one record per record line, in the order of the lines
RECURSIVE RecordsOfLines(_)
RecordsOfLines(lines) ==
  IF lines = <<>> THEN <<>>
  ELSE (IF IsRecordLine(strip(Head(lines)))
        THEN <<RecordOfParts(split(strip(Head(lines)), <<" ", "-", " ">>))>>
        ELSE <<>>) \o RecordsOfLines(Tail(lines))

RecordsExpected(recs) == IF recs = <<>> THEN <<GeneralRisk>> ELSE recs

\* C19: for a response without "no significant risks", llm_review returns
\* exactly one item per line that starts with Risk, holds a colon and has at
\* least four parts, in the order of the lines, with the text after the
\* first ": " of part 0 and the issue, suggestion and lower-cased level of
\* parts 1, 2 and 3 without their labels; no line of another shape, before or
\* after, removes or repeats a record (with no such line at all the general
\* item of C10 is returned).
C19_OneItemPerRecordLine ==
  (/\ pc = "returned"
   /\ stage = "review"
   /\ ~response.raised
   /\ ~Blank(response.content)
   /\ ~SaysNoSignificantRisks(response.content))
  => result =
       Return(RecordsExpected(RecordsOfLines(split(strip(response.content), <<"\n">>))))

\* C19 witness: a record line followed by a Risk line of two parts gave the
\* one record.
C19_Witness ==
  /\ pc = "returned"
  /\ stage = "review"
  /\ response = Responded(RiskLine("1", "foo", "HIGH") \o <<"\n">>
                  \o <<"Risk", " ", "4", ":", " ", "q", " ", "-", " ", "Issue", ":", " ", "x">>)
  /\ result.value = <<[text |-> <<"foo">>, issue |-> <<"bar">>, suggestion |-> <<"baz">>,
                       risk_level |-> <<"high">>]>>

\* the text before the rule for 3+ newlines is applied
BeforeNewlineRule(x) ==
  sub_pair(sub_pair(sub_pagebreaks(sub_whitespace(x)), LowerLetters, UpperLetters),
           {"."}, UpperLetters)

MarkTagStart == SubSeq(MarkStyleOpen, 1, 6)

\* position i of s lies in an opening wrapper, which runs from a '<mark ' to
\* the next '>': some '<mark ' starts at or before i with no '>' in between
InOpening(s, i, starts, closers) ==
  \E j \in starts : j <= i /\ \A g \in closers : g < j \/ g >= i

\* position i of s lies in a closing wrapper '</mark>' that does not start
\* inside an opening one
InClosing(s, i, starts, closers, ends) ==
  \E j \in ends : j <= i /\ i <= j + 6 /\ ~InOpening(s, j, starts, closers)

\* the characters of s outside every wrapper, in their order
Unwrapped(s, starts, closers, ends) ==
  LET kept(e) == ~InOpening(s, e[1], starts, closers)
                   /\ ~InClosing(s, e[1], starts, closers, ends)
      left == SelectSeq([i \in 1..Len(s) |-> <<i, s[i]>>], kept)
  IN [k \in 1..Len(left) |-> left[k][2]]

without_marks(s) ==
  Unwrapped(s, Occurrences(s, MarkTagStart), {g \in 1..Len(s) : s[g] = ">"},
            Occurrences(s, MarkEnd))

\* C21: a later replacement alters neither the markup nor the span of an
\* earlier one: when highlight_risks_in_text has returned, the mark of every
\* applied risk stands intact in the result, the result without its
\* <mark ...> and </mark> wrappers is the source text, and a risk whose text
\* does not occur in the source was not applied and is still in the list.
C21_MarkupIntact ==
  (pc = "returned" /\ stage = "highlight") =>
    /\ \A i \in 1..Len(applied) : contains(highlighted_text, mark(applied[i]))
    /\ without_marks(highlighted_text) = text
    /\ \A i \in 1..Len(risks) :
         ~contains(text, risks[i].text) =>
           /\ \A j \in 1..Len(applied) : applied[j] # risks[i]
           /\ (Len(risks) = 1 => highlighted_text = text)

====
